---- MODULE Spec2Model ----
(***************************************************************************)
(* Model of the lookup-table registry client:                              *)
(*   libraries/rust/src/client.rs  LookupRegistryClient (TTL cache,        *)
(*                                 update_registries, find_addresses)      *)
(*   libraries/rust/src/lib.rs     Registry::fetch                         *)
(*   libraries/rust/src/instructions.rs  append_to_lookup_table            *)
(*   server/src/main.rs            get_lookup_addresses (request handler)  *)
(***************************************************************************)
EXTENDS Integers, Sequences, FiniteSets, TLC

VARIABLES
    cache,        \* LookupRegistryClient.cache: authority -> [registry, expires]
    now,          \* wall clock in seconds (Instant::now())
    readers,      \* tasks holding a read guard of the cache RwLock
    pc,           \* position of each task
    handler,      \* TRUE while the task runs get_lookup_addresses (main.rs)
    authorities,  \* the `authorities` argument of the running call
    original,     \* find_addresses: the working set as built from `instructions`
    idx,          \* 1-based position of the `for authority in authorities` loop
    errors,       \* update_registries: `errors`
    outcomes,     \* update_registries: what happened to each authority processed so far
    registry,     \* update_registries: fetched `registry`; find_addresses: `registry` read from the cache
    tbl,          \* find_addresses: 1-based position of `for table in registry.tables`
    accounts,     \* find_addresses: working set `accounts`
    distinct,     \* find_addresses: `distinct`
    matches,      \* find_addresses: `matches`
    unmatched,    \* FindAddressesResult.unmatched of the last returned call
    started,      \* clock value when the running find_addresses was entered
    last,         \* per authority, the registry of its last successful refresh and the
                  \* clock value of the insert
    writer,       \* task holding the write guard of the cache RwLock, or "none"
    atCall,       \* per task, the reduction of the running find_addresses over the
                  \* registries published when the call was entered
    atLookup,     \* per task, the reduction over the registries published when each
                  \* authority was looked up, for the authorities looked up so far
    call,         \* the function applied in isolation with its arguments and result
    referenced    \* per task, the addresses the `instructions` argument of the running
                  \* find_addresses refers to: program ids and accounts

vars == <<cache, now, readers, pc, handler, authorities, original, idx, errors,
          outcomes, registry, tbl, accounts, distinct, matches, unmatched, started, last,
          writer, atCall, atLookup, call, referenced>>

----------------------------------------------------------------------------
(* Bounds and universes *)

MaxAuthorities == 2      \* longest `authorities` argument
MaxInstructions == 2     \* longest `instructions` argument
TickStep == 1800         \* seconds by which the clock advances in one step
MaxTime == 3600          \* the clock stops advancing here

MaxEntries == 3          \* longest on-chain registry given to Registry::fetch on its own
MaxAppend == 3           \* longest `addresses` argument of append_to_lookup_table
MaxMembers == 3          \* longest address list of a table evaluated on its own

TTL_Minutes == 60 * 3600  \* mutant of TTL: the duration is taken in minutes
TTL == 3600              \* Duration::from_secs(3600)

Tasks == {"t1", "t2"}
Requesters == {"t1"}     \* the task of the sequential specification
Finders == {"t1"}        \* the concurrent specification: tasks calling find_addresses
Updaters == {"t2"}       \* the concurrent specification: tasks calling update_registries
Authority == {"X", "Y"}
Pubkey == {"A", "B", "C", "D"}
LookupAddr == {"T1", "T2", "T3", "T4", "T5"}

Range(s) == {s[k] : k \in DOMAIN s}

SeqsUpTo(S, n) == UNION {[1..m -> S] : m \in 0..n}

Min(a, b) == IF a < b THEN a ELSE b

----------------------------------------------------------------------------
(* The ledger as seen through the RPC client *)

\* One entry of the on-chain RegistryAccount.tables
Entry(d, table) == [discriminator |-> d, table |-> table]

\* RegistryAccount.tables of the registry accounts an authority may hold on the
\* ledger: entries with discriminator <= 1, with a missing table account (T4)
\* and with an undecodable table account (T5) occur.
ChainRegistries ==
    { <<Entry(2, "T1"), Entry(1, "T3"), Entry(2, "T2")>>,
      <<Entry(2, "T2"), Entry(2, "T4"), Entry(2, "T1")>>,
      <<Entry(2, "T5"), Entry(3, "T3")>> }

\* RegistryAccount.tables in general: any list of entries
RawEntry == [discriminator : 0..3, table : LookupAddr]
RawRegistries == SeqsUpTo(RawEntry, MaxEntries)

\* Data of the registry account of an authority, as get_account may return it;
\* decodable: RegistryAccount::try_deserialize accepts it
NoData == [decodable |-> FALSE, version |-> 0, tables |-> <<>>]

RegistryAccountData ==
    [decodable : {TRUE}, version : {1}, tables : ChainRegistries] \cup {NoData}

\* Responses of rpc.get_account(&registry_address)
GetAccountResponse ==
    [status : {"Ok"}, data : RegistryAccountData]
    \cup [status : {"AccountNotFound", "TransportError"}, data : {NoData}]

\* The lookup table accounts of the ledger: T4 does not exist, T5 holds data
\* that AddressLookupTable::deserialize rejects, T3 repeats a member.
NoAccount == [exists |-> FALSE, decodable |-> FALSE, addresses |-> <<>>]
BadAccount == [exists |-> TRUE, decodable |-> FALSE, addresses |-> <<>>]
TableAccount(addrs) == [exists |-> TRUE, decodable |-> TRUE, addresses |-> addrs]

LookupTableAccounts ==
    [a \in LookupAddr |->
        CASE a = "T1" -> TableAccount(<<"A", "B", "C">>)
          [] a = "T2" -> TableAccount(<<"C", "D">>)
          [] a = "T3" -> TableAccount(<<"A", "A">>)
          [] a = "T4" -> NoAccount
          [] OTHER    -> BadAccount]

\* rpc.get_multiple_accounts(&pubkeys): one Option<Account> per requested key
GetMultipleAccounts(pubkeys) == [k \in DOMAIN pubkeys |-> LookupTableAccounts[pubkeys[k]]]

EmptyRegistry(authority) == [authority |-> authority, version |-> 0, tables |-> <<>>]

FetchErr(authority, e) == [status |-> "Err", error |-> e, registry |-> EmptyRegistry(authority)]

\* Mutant of Fetch: the returned accounts are zipped with all the entries of
\* the registry account instead of the entries that were requested
Fetch_ZipAllEntries(authority, acct, multiOk) ==
    IF acct.status = "AccountNotFound" THEN FetchErr(authority, "RegistryNotFound")
    ELSE IF acct.status # "Ok" THEN FetchErr(authority, "ClientError")
    ELSE IF ~acct.data.decodable THEN FetchErr(authority, "AnchorError")
    ELSE
        LET addresses == SelectSeq(acct.data.tables, LAMBDA entry : entry.discriminator > 1)
            pubkeys == [k \in DOMAIN addresses |-> addresses[k].table]
        IN  IF ~multiOk
            THEN [status |-> "Panic", error |-> "unwrap", registry |-> EmptyRegistry(authority)]
            ELSE
                LET accs == GetMultipleAccounts(pubkeys)
                    zipped == [k \in 1..Min(Len(accs), Len(acct.data.tables)) |->
                                  [account |-> accs[k], entry |-> acct.data.tables[k]]]
                    kept == SelectSeq(zipped,
                                LAMBDA p : p.account.exists /\ p.account.decodable)
                    tables == [k \in DOMAIN kept |->
                                  [discriminator |-> kept[k].entry.discriminator,
                                   lookup_address |-> kept[k].entry.table,
                                   addresses |-> kept[k].account.addresses]]
                IN  [status |-> "Ok", error |-> "",
                     registry |-> [authority |-> authority,
                                   version |-> acct.data.version,
                                   tables |-> tables]]

\* Registry::fetch, given the responses of its two RPC calls
\* (multiOk = FALSE: get_multiple_accounts returned Err, which is unwrapped)
Fetch(authority, acct, multiOk) ==
    IF acct.status = "AccountNotFound" THEN FetchErr(authority, "RegistryNotFound")
    ELSE IF acct.status # "Ok" THEN FetchErr(authority, "ClientError")
    ELSE IF ~acct.data.decodable THEN FetchErr(authority, "AnchorError")
    ELSE
        LET addresses == SelectSeq(acct.data.tables, LAMBDA entry : entry.discriminator > 1)
            pubkeys == [k \in DOMAIN addresses |-> addresses[k].table]
        IN  IF ~multiOk
            THEN [status |-> "Panic", error |-> "unwrap", registry |-> EmptyRegistry(authority)]
            ELSE
                LET accs == GetMultipleAccounts(pubkeys)
                    zipped == [k \in 1..Min(Len(accs), Len(addresses)) |->
                                  [account |-> accs[k], entry |-> addresses[k]]]
                    kept == SelectSeq(zipped,
                                LAMBDA p : p.account.exists /\ p.account.decodable)
                    tables == [k \in DOMAIN kept |->
                                  [discriminator |-> kept[k].entry.discriminator,
                                   lookup_address |-> kept[k].entry.table,
                                   addresses |-> kept[k].account.addresses]]
                IN  [status |-> "Ok", error |-> "",
                     registry |-> [authority |-> authority,
                                   version |-> acct.data.version,
                                   tables |-> tables]]

----------------------------------------------------------------------------
(* InstructionBuilder *)

\* InstructionBuilder::append_to_lookup_table: the instruction it returns
AppendToLookupTable(lookup_table, addresses) ==
    [program_id |-> "LOOKUP_REGISTRY_ID",
     lookup_table |-> lookup_table,
     data |-> [_discriminator |-> 0, addresses |-> addresses]]

----------------------------------------------------------------------------
(* The TTL cache *)

\* Mutant of CacheInsert: an existing entry is kept (entry().or_insert())
CacheInsert_KeepExisting(c, authority, reg, time) ==
    [a \in DOMAIN c \cup {authority} |->
        IF a \in DOMAIN c THEN c[a] ELSE [registry |-> reg, expires |-> time + TTL]]

\* endorphin HashMap::insert(key, value, ttl) under TTLPolicy
CacheInsert(c, authority, reg, time) ==
    [a \in DOMAIN c \cup {authority} |->
        IF a = authority THEN [registry |-> reg, expires |-> time + TTL] ELSE c[a]]

\* Mutant of CacheHas: an entry is returned however old it is
CacheHas_IgnoreExpiry(c, authority, time) == authority \in DOMAIN c

\* reader.get(authority) returns Some: the entry is present and its TTL has not elapsed
CacheHas(c, authority, time) == authority \in DOMAIN c /\ time < c[authority].expires

----------------------------------------------------------------------------
(* find_addresses *)

\* Instructions a request may carry
InstructionPool ==
    { [program_id |-> "A", accounts |-> <<"B", "C">>],
      [program_id |-> "D", accounts |-> <<"C", "C">>] }

\* Mutant of CollectAccounts: the program id of an instruction is left out
CollectAccounts_NoProgramId(ixs) == UNION {Range(ix.accounts) : ix \in Range(ixs)}

\* The working set built from the instructions
RECURSIVE CollectAccounts(_)
CollectAccounts(ixs) ==
    IF ixs = <<>> THEN {}
    ELSE LET ix == ixs[Len(ixs)]
         IN  CollectAccounts(SubSeq(ixs, 1, Len(ixs) - 1))
                \cup {ix.program_id} \cup Range(ix.accounts)

\* `for address in &accounts`: a HashSet is iterated in an order the program
\* does not control; every enumeration of the set is possible
IterationOrders ==
    [S \in SUBSET Pubkey |-> {o \in [1..Cardinality(S) -> S] : Range(o) = S}]

\* The addresses of seq found in S, the scan ending once two are found
RECURSIVE FirstTwoCommon(_, _, _)
FirstTwoCommon(seq, S, found) ==
    IF seq = <<>> \/ Cardinality(found) >= 2 THEN found
    ELSE FirstTwoCommon(Tail(seq), S,
                        IF Head(seq) \in S THEN found \cup {Head(seq)} ELSE found)

\* Mutant of Intersection: the loops stop as soon as the selection test is met
Intersection_StopAtTwo(addresses, order) ==
    LET len_a == Len(addresses)
        len_b == Len(order)
    IN  IF len_a < len_b
        THEN FirstTwoCommon(addresses, Range(order), {})
        ELSE FirstTwoCommon(order, Range(addresses), {})

\* Mutant of Intersection: one loop over the table's address list, bounded by
\* the smaller of the two lengths
Intersection_Bounded(addresses, order) ==
    {addresses[k] : k \in {j \in 1..Min(Len(addresses), Len(order)) :
                              addresses[j] \in Range(order)}}

\* The manual intersection of a table's address list with the working set,
\* the working set being iterated in `order`
Intersection(addresses, order) ==
    LET len_a == Len(addresses)
        len_b == Len(order)
    IN  IF len_a < len_b
        THEN {addresses[k] : k \in {j \in DOMAIN addresses : addresses[j] \in Range(order)}}
        ELSE {order[k] : k \in {j \in DOMAIN order : order[j] \in Range(addresses)}}

\* Mutant of Selected: a single overlapping address is enough
Selected_AtLeastOne(intersection) == Cardinality(intersection) > 0

\* "Use an account if it reduces ..." : the selection test
Selected(intersection) == Cardinality(intersection) > 1

\* Mutant of EvalTable: the intersection is removed whether or not the table is selected
EvalTable_AlwaysRemove(table, order, ms) ==
    LET accs == Range(order)
        intersection == Intersection(table.addresses, order)
    IN  [accounts |-> accs \ intersection,
         matches |-> IF Selected(intersection) THEN Append(ms, table.lookup_address) ELSE ms]

\* Mutant of EvalTable: the difference is computed but the working set is not
\* updated (HashSet::difference() returns a new set)
EvalTable_KeepWorkingSet(table, order, ms) ==
    LET accs == Range(order)
        intersection == Intersection(table.addresses, order)
    IN  IF Selected(intersection)
        THEN [accounts |-> accs, matches |-> Append(ms, table.lookup_address)]
        ELSE [accounts |-> accs, matches |-> ms]

\* One iteration of `for table in registry.tables.iter()`
EvalTable(table, order, ms) ==
    LET accs == Range(order)
        intersection == Intersection(table.addresses, order)
    IN  IF Selected(intersection)
        THEN [accounts |-> accs \ intersection, matches |-> Append(ms, table.lookup_address)]
        ELSE [accounts |-> accs, matches |-> ms]

----------------------------------------------------------------------------
(* The reduction as specified, over the registries published by refreshes *)

\* No registry: the value of `registry` outside the loop bodies
NoRegistry == [authority |-> "", version |-> 0, tables |-> <<>>]

\* The authority's last successful refresh is less than TTL seconds old at `time`
Fresh(authority, time) == authority \in DOMAIN last /\ time < last[authority].at + 3600

\* The registry published for an authority at a given time: that of its last
\* successful refresh if less than an hour old, none otherwise
Published(authority, time) ==
    IF Fresh(authority, time)
    THEN last[authority].registry
    ELSE NoRegistry

\* The greedy reduction, stated over the registries last published
RECURSIVE RefTables(_, _, _)
RefTables(tables, accs, ms) ==
    IF tables = <<>> THEN [accounts |-> accs, matches |-> ms]
    ELSE LET common == Range(Head(tables).addresses) \cap accs
         IN  IF Cardinality(common) > 1
             THEN RefTables(Tail(tables), accs \ common,
                            Append(ms, Head(tables).lookup_address))
             ELSE RefTables(Tail(tables), accs, ms)

RECURSIVE RefFind(_, _, _, _)
RefFind(auths, accs, ms, time) ==
    IF auths = <<>> THEN [accounts |-> accs, matches |-> ms]
    ELSE IF Fresh(Head(auths), time)
         THEN LET r == RefTables(last[Head(auths)].registry.tables, accs, ms)
              IN  RefFind(Tail(auths), r.accounts, r.matches, time)
         ELSE RefFind(Tail(auths), accs, ms, time)

\* No reduction is under way
NoReduction == [accounts |-> {}, matches |-> <<>>]

----------------------------------------------------------------------------
(* State machine *)

\* No function is being applied in isolation
NoCall == [op |-> "none"]

AuthorityLists == SeqsUpTo(Authority, MaxAuthorities)
InstructionLists == SeqsUpTo(InstructionPool, MaxInstructions)

\* LookupRegistryClient::new: an empty cache; no task has started
Init ==
    /\ cache = <<>>
    /\ now = 0
    /\ readers = {}
    /\ pc = [t \in Tasks |-> "idle"]
    /\ handler = [t \in Tasks |-> FALSE]
    /\ authorities = [t \in Tasks |-> <<>>]
    /\ original = [t \in Tasks |-> {}]
    /\ idx = [t \in Tasks |-> 1]
    /\ errors = [t \in Tasks |-> <<>>]
    /\ outcomes = [t \in Tasks |-> <<>>]
    /\ registry = [t \in Tasks |-> NoRegistry]
    /\ tbl = [t \in Tasks |-> 1]
    /\ accounts = [t \in Tasks |-> {}]
    /\ distinct = [t \in Tasks |-> 0]
    /\ matches = [t \in Tasks |-> <<>>]
    /\ unmatched = [t \in Tasks |-> 0]
    /\ started = [t \in Tasks |-> 0]
    /\ last = <<>>
    /\ writer = "none"
    /\ atCall = [t \in Tasks |-> NoReduction]
    /\ atLookup = [t \in Tasks |-> NoReduction]
    /\ call = NoCall
    /\ referenced = [t \in Tasks |-> {}]

\* Mutant of EnterUpdate: the write guard is taken before the loop, so it is
\* held while the fetches are awaited
EnterUpdate_LockFirst(t, auths, byHandler) ==
    /\ pc[t] = "idle"
    /\ readers = {}
    /\ writer = "none"
    /\ writer' = t
    /\ pc' = [pc EXCEPT ![t] = "fetch"]
    /\ handler' = [handler EXCEPT ![t] = byHandler]
    /\ authorities' = [authorities EXCEPT ![t] = auths]
    /\ idx' = [idx EXCEPT ![t] = 1]
    /\ errors' = [errors EXCEPT ![t] = <<>>]
    /\ outcomes' = [outcomes EXCEPT ![t] = <<>>]
    /\ UNCHANGED <<cache, last, now, readers, original, registry, tbl, accounts,
                   distinct, matches, unmatched, started>>
    /\ UNCHANGED <<atCall, atLookup, call, referenced>>

\* Entry of update_registries(authorities); byHandler: called from get_lookup_addresses
EnterUpdate(t, auths, byHandler) ==
    /\ pc[t] = "idle"
    /\ pc' = [pc EXCEPT ![t] = "fetch"]
    /\ handler' = [handler EXCEPT ![t] = byHandler]
    /\ authorities' = [authorities EXCEPT ![t] = auths]
    /\ idx' = [idx EXCEPT ![t] = 1]
    /\ errors' = [errors EXCEPT ![t] = <<>>]
    /\ outcomes' = [outcomes EXCEPT ![t] = <<>>]
    /\ UNCHANGED <<cache, last, now, readers, original, registry, tbl, accounts,
                   distinct, matches, unmatched, started>>
    /\ UNCHANGED <<writer, atCall, atLookup, call, referenced>>

\* A direct call of update_registries
CallUpdate(t) == \E auths \in AuthorityLists : EnterUpdate(t, auths, FALSE)

\* A direct call of update_registries for a single authority
CallUpdateOne(t) == \E a \in Authority : EnterUpdate(t, <<a>>, FALSE)

\* A request reaching get_lookup_addresses, which first refreshes its authorities
CallHandler(t) == \E auths \in AuthorityLists : EnterUpdate(t, auths, TRUE)

\* Mutant of ErrorsAfter: the condition is inverted
ErrorsAfter_PushOnOk(errs, authority, r) ==
    IF r.status = "Ok" THEN Append(errs, authority) ELSE errs

\* `let Ok(registry) = ... else { errors.push(*authority); continue; }`:
\* the error list after the fetch returned r
ErrorsAfter(errs, authority, r) ==
    IF r.status = "Err" THEN Append(errs, authority) ELSE errs

\* Mutant of PcAfterFetch: a failed fetch falls through to the insert
PcAfterFetch_InsertOnErr(r) ==
    CASE r.status = "Ok" -> "insert"
      [] r.status = "Err" -> "insert"
      [] OTHER -> "panicked"

\* ... and where the task goes: on to the insert, on to the next authority, or,
\* when the unwrap inside fetch panicked, out of the call
PcAfterFetch(r) ==
    CASE r.status = "Ok" -> "insert"
      [] r.status = "Err" -> "fetch"
      [] OTHER -> "panicked"

\* Registry::fetch(&self.rpc, authority).await completes for the current authority
FetchStep(t) ==
    /\ pc[t] = "fetch"
    /\ idx[t] <= Len(authorities[t])
    /\ \E acct \in GetAccountResponse, multiOk \in BOOLEAN :
         LET authority == authorities[t][idx[t]]
             r == Fetch(authority, acct, multiOk)
         IN  /\ errors' = [errors EXCEPT ![t] = ErrorsAfter(@, authority, r)]
             /\ pc' = [pc EXCEPT ![t] = PcAfterFetch(r)]
             /\ idx' = [idx EXCEPT ![t] = IF PcAfterFetch(r) = "fetch" THEN @ + 1 ELSE @]
             /\ registry' = [registry EXCEPT ![t] = IF r.status = "Ok" THEN r.registry ELSE @]
             /\ outcomes' = [outcomes EXCEPT ![t] =
                                Append(@, CASE r.status = "Ok" -> "Fetched"
                                            [] r.status = "Err" -> "Err"
                                            [] OTHER -> "Panic")]
    /\ UNCHANGED <<cache, last, now, readers, handler, authorities, original, tbl,
                   accounts, distinct, matches, unmatched, started>>
    /\ UNCHANGED <<writer, atCall, atLookup, call, referenced>>

\* Mutant of WriteGranted: the map is written while read guards are held
WriteGranted_Always(rs) == TRUE

\* self.cache.write(): the write guard is granted when no read guard is held
WriteGranted(rs) == rs = {}

\* self.cache.write() is granted and the fetched registry is inserted
InsertStep(t) ==
    /\ pc[t] = "insert"
    /\ WriteGranted(readers)
    /\ writer \in {"none", t}
    /\ LET authority == authorities[t][idx[t]]
       IN  /\ cache' = CacheInsert(cache, authority, registry[t], now)
           /\ last' = [a \in DOMAIN last \cup {authority} |->
                         IF a = authority
                         THEN [registry |-> registry[t], at |-> now]
                         ELSE last[a]]
    /\ outcomes' = [outcomes EXCEPT ![t] = [@ EXCEPT ![Len(@)] = "Inserted"]]
    /\ registry' = [registry EXCEPT ![t] = NoRegistry]
    /\ idx' = [idx EXCEPT ![t] = @ + 1]
    /\ pc' = [pc EXCEPT ![t] = "fetch"]
    /\ UNCHANGED <<now, readers, handler, authorities, original, errors, tbl,
                   accounts, distinct, matches, unmatched, started>>
    /\ writer' = "none"
    /\ UNCHANGED <<atCall, atLookup, call, referenced>>

\* Entry of find_addresses(instructions, authorities): build the working set
EnterFind(t, ixs, auths) ==
    /\ pc' = [pc EXCEPT ![t] = "lookup"]
    /\ authorities' = [authorities EXCEPT ![t] = auths]
    /\ original' = [original EXCEPT ![t] = CollectAccounts(ixs)]
    /\ idx' = [idx EXCEPT ![t] = 1]
    /\ registry' = [registry EXCEPT ![t] = NoRegistry]
    /\ tbl' = [tbl EXCEPT ![t] = 1]
    /\ accounts' = [accounts EXCEPT ![t] = CollectAccounts(ixs)]
    /\ distinct' = [distinct EXCEPT ![t] = Cardinality(CollectAccounts(ixs))]
    /\ matches' = [matches EXCEPT ![t] = <<>>]
    /\ unmatched' = [unmatched EXCEPT ![t] = 0]
    /\ started' = [started EXCEPT ![t] = now]
    /\ UNCHANGED <<cache, now, readers, last>>
    /\ atCall' = [atCall EXCEPT ![t] = RefFind(auths, CollectAccounts(ixs), <<>>, now)]
    /\ atLookup' = [atLookup EXCEPT ![t] = [accounts |-> CollectAccounts(ixs), matches |-> <<>>]]
    /\ referenced' = [referenced EXCEPT ![t] =
                          UNION {{ix.program_id} \cup Range(ix.accounts) : ix \in Range(ixs)}]
    /\ UNCHANGED <<writer, call>>

\* update_registries returns `errors`; the handler goes on to find_addresses
\* with the same authorities
UpdateReturn(t) ==
    /\ pc[t] = "fetch"
    /\ idx[t] > Len(authorities[t])
    /\ IF handler[t]
       THEN /\ \E ixs \in InstructionLists : EnterFind(t, ixs, authorities[t])
            /\ UNCHANGED <<handler, errors, outcomes>>
       ELSE /\ pc' = [pc EXCEPT ![t] = "updated"]
            /\ UNCHANGED <<cache, last, now, readers, handler, authorities, original, idx,
                           errors, outcomes, registry, tbl, accounts, distinct, matches,
                           unmatched, started, writer, atCall, atLookup, call, referenced>>

\* A direct call of find_addresses
CallFind(t) ==
    /\ pc[t] = "idle"
    /\ \E ixs \in InstructionLists, auths \in AuthorityLists : EnterFind(t, ixs, auths)
    /\ handler' = [handler EXCEPT ![t] = FALSE]
    /\ errors' = [errors EXCEPT ![t] = <<>>]
    /\ outcomes' = [outcomes EXCEPT ![t] = <<>>]

\* self.cache.read(): a read guard is granted when no write guard is held
ReadGranted(w) == w = "none"

\* Mutant of FindLookup: a cache miss ends the loop (break for continue)
FindLookup_BreakOnMiss(t) ==
    /\ pc[t] = "lookup"
    /\ idx[t] <= Len(authorities[t])
    /\ ReadGranted(writer)
    /\ LET authority == authorities[t][idx[t]]
       IN  IF CacheHas(cache, authority, now)
           THEN /\ registry' = [registry EXCEPT ![t] = cache[authority].registry]
                /\ tbl' = [tbl EXCEPT ![t] = 1]
                /\ readers' = readers \cup {t}
                /\ pc' = [pc EXCEPT ![t] = "tables"]
                /\ UNCHANGED idx
           ELSE /\ idx' = [idx EXCEPT ![t] = Len(authorities[t]) + 1]
                /\ UNCHANGED <<registry, tbl, readers, pc>>
    /\ UNCHANGED <<cache, last, now, handler, authorities, original, errors, outcomes,
                   accounts, distinct, matches, unmatched, started>>
    /\ atLookup' = [atLookup EXCEPT ![t] =
                        RefTables(Published(authorities[t][idx[t]], now).tables,
                                  @.accounts, @.matches)]
    /\ UNCHANGED <<writer, atCall, call, referenced>>

\* Mutant of FindLookup: a cache miss is treated as an error (unwrap of the
\* looked-up entry), which ends the call
FindLookup_PanicOnMiss(t) ==
    /\ pc[t] = "lookup"
    /\ idx[t] <= Len(authorities[t])
    /\ ReadGranted(writer)
    /\ LET authority == authorities[t][idx[t]]
       IN  IF CacheHas(cache, authority, now)
           THEN /\ registry' = [registry EXCEPT ![t] = cache[authority].registry]
                /\ tbl' = [tbl EXCEPT ![t] = 1]
                /\ readers' = readers \cup {t}
                /\ pc' = [pc EXCEPT ![t] = "tables"]
                /\ UNCHANGED idx
           ELSE /\ pc' = [pc EXCEPT ![t] = "panicked"]
                /\ UNCHANGED <<registry, tbl, readers, idx>>
    /\ UNCHANGED <<cache, last, now, handler, authorities, original, errors, outcomes,
                   accounts, distinct, matches, unmatched, started>>
    /\ atLookup' = [atLookup EXCEPT ![t] =
                        RefTables(Published(authorities[t][idx[t]], now).tables,
                                  @.accounts, @.matches)]
    /\ UNCHANGED <<writer, atCall, call, referenced>>

\* Mutant of FindLookup: every iteration looks up the first authority
FindLookup_FirstAuthority(t) ==
    /\ pc[t] = "lookup"
    /\ idx[t] <= Len(authorities[t])
    /\ ReadGranted(writer)
    /\ LET authority == authorities[t][1]
       IN  IF CacheHas(cache, authority, now)
           THEN /\ registry' = [registry EXCEPT ![t] = cache[authority].registry]
                /\ tbl' = [tbl EXCEPT ![t] = 1]
                /\ readers' = readers \cup {t}
                /\ pc' = [pc EXCEPT ![t] = "tables"]
                /\ UNCHANGED idx
           ELSE /\ idx' = [idx EXCEPT ![t] = @ + 1]
                /\ UNCHANGED <<registry, tbl, readers, pc>>
    /\ UNCHANGED <<cache, last, now, handler, authorities, original, errors, outcomes,
                   accounts, distinct, matches, unmatched, started>>
    /\ atLookup' = [atLookup EXCEPT ![t] =
                        RefTables(Published(authorities[t][idx[t]], now).tables,
                                  @.accounts, @.matches)]
    /\ UNCHANGED <<writer, atCall, call, referenced>>

\* self.cache.read() is granted and reader.get(authority) is evaluated
FindLookup(t) ==
    /\ pc[t] = "lookup"
    /\ idx[t] <= Len(authorities[t])
    /\ ReadGranted(writer)
    /\ LET authority == authorities[t][idx[t]]
       IN  IF CacheHas(cache, authority, now)
           THEN /\ registry' = [registry EXCEPT ![t] = cache[authority].registry]
                /\ tbl' = [tbl EXCEPT ![t] = 1]
                /\ readers' = readers \cup {t}
                /\ pc' = [pc EXCEPT ![t] = "tables"]
                /\ UNCHANGED idx
           ELSE /\ idx' = [idx EXCEPT ![t] = @ + 1]
                /\ UNCHANGED <<registry, tbl, readers, pc>>
    /\ UNCHANGED <<cache, last, now, handler, authorities, original, errors, outcomes,
                   accounts, distinct, matches, unmatched, started>>
    /\ atLookup' = [atLookup EXCEPT ![t] =
                        RefTables(Published(authorities[t][idx[t]], now).tables,
                                  @.accounts, @.matches)]
    /\ UNCHANGED <<writer, atCall, call, referenced>>

\* Mutant of FindTable: the tables of a registry are evaluated last to first
FindTable_LastFirst(t) ==
    /\ pc[t] = "tables"
    /\ tbl[t] <= Len(registry[t].tables)
    /\ \E order \in IterationOrders[accounts[t]] :
         LET r == EvalTable(registry[t].tables[Len(registry[t].tables) + 1 - tbl[t]],
                            order, matches[t])
         IN  /\ accounts' = [accounts EXCEPT ![t] = r.accounts]
             /\ matches' = [matches EXCEPT ![t] = r.matches]
    /\ tbl' = [tbl EXCEPT ![t] = @ + 1]
    /\ UNCHANGED <<cache, last, now, readers, pc, handler, authorities, original, idx,
                   errors, outcomes, registry, distinct, unmatched, started>>
    /\ UNCHANGED <<writer, atCall, atLookup, call, referenced>>

\* One table of the registry is evaluated against the working set
FindTable(t) ==
    /\ pc[t] = "tables"
    /\ tbl[t] <= Len(registry[t].tables)
    /\ \E order \in IterationOrders[accounts[t]] :
         LET r == EvalTable(registry[t].tables[tbl[t]], order, matches[t])
         IN  /\ accounts' = [accounts EXCEPT ![t] = r.accounts]
             /\ matches' = [matches EXCEPT ![t] = r.matches]
    /\ tbl' = [tbl EXCEPT ![t] = @ + 1]
    /\ UNCHANGED <<cache, last, now, readers, pc, handler, authorities, original, idx,
                   errors, outcomes, registry, distinct, unmatched, started>>
    /\ UNCHANGED <<writer, atCall, atLookup, call, referenced>>

\* Mutant of FindRelease: the read guard outlives the loop body
FindRelease_KeepGuard(t) ==
    /\ pc[t] = "tables"
    /\ tbl[t] > Len(registry[t].tables)
    /\ readers' = readers
    /\ registry' = [registry EXCEPT ![t] = NoRegistry]
    /\ tbl' = [tbl EXCEPT ![t] = 1]
    /\ idx' = [idx EXCEPT ![t] = @ + 1]
    /\ pc' = [pc EXCEPT ![t] = "lookup"]
    /\ UNCHANGED <<cache, last, now, handler, authorities, original, errors, outcomes,
                   accounts, distinct, matches, unmatched, started>>
    /\ UNCHANGED <<writer, atCall, atLookup, call, referenced>>

\* End of the loop body for one authority: the read guard is dropped
FindRelease(t) ==
    /\ pc[t] = "tables"
    /\ tbl[t] > Len(registry[t].tables)
    /\ readers' = readers \ {t}
    /\ registry' = [registry EXCEPT ![t] = NoRegistry]
    /\ tbl' = [tbl EXCEPT ![t] = 1]
    /\ idx' = [idx EXCEPT ![t] = @ + 1]
    /\ pc' = [pc EXCEPT ![t] = "lookup"]
    /\ UNCHANGED <<cache, last, now, handler, authorities, original, errors, outcomes,
                   accounts, distinct, matches, unmatched, started>>
    /\ UNCHANGED <<writer, atCall, atLookup, call, referenced>>

\* Mutant of FindReturn: unmatched is distinct less the number of tables selected
FindReturn_CountTables(t) ==
    /\ pc[t] = "lookup"
    /\ idx[t] > Len(authorities[t])
    /\ unmatched' = [unmatched EXCEPT ![t] = distinct[t] - Len(matches[t])]
    /\ pc' = [pc EXCEPT ![t] = "found"]
    /\ UNCHANGED <<cache, last, now, readers, handler, authorities, original, idx, errors,
                   outcomes, registry, tbl, accounts, distinct, matches, started>>
    /\ UNCHANGED <<writer, atCall, atLookup, call, referenced>>

\* find_addresses returns FindAddressesResult { matches, distinct, unmatched }
FindReturn(t) ==
    /\ pc[t] = "lookup"
    /\ idx[t] > Len(authorities[t])
    /\ unmatched' = [unmatched EXCEPT ![t] = Cardinality(accounts[t])]
    /\ pc' = [pc EXCEPT ![t] = "found"]
    /\ UNCHANGED <<cache, last, now, readers, handler, authorities, original, idx, errors,
                   outcomes, registry, tbl, accounts, distinct, matches, started>>
    /\ UNCHANGED <<writer, atCall, atLookup, call, referenced>>

\* The caller is done with the returned value (the handler has sent its
\* response), or the panicked task is gone; the task's locals are dropped
Finish(t) ==
    /\ pc[t] \in {"updated", "found", "panicked"}
    /\ pc' = [pc EXCEPT ![t] = "idle"]
    /\ handler' = [handler EXCEPT ![t] = FALSE]
    /\ authorities' = [authorities EXCEPT ![t] = <<>>]
    /\ original' = [original EXCEPT ![t] = {}]
    /\ idx' = [idx EXCEPT ![t] = 1]
    /\ errors' = [errors EXCEPT ![t] = <<>>]
    /\ outcomes' = [outcomes EXCEPT ![t] = <<>>]
    /\ registry' = [registry EXCEPT ![t] = NoRegistry]
    /\ tbl' = [tbl EXCEPT ![t] = 1]
    /\ accounts' = [accounts EXCEPT ![t] = {}]
    /\ distinct' = [distinct EXCEPT ![t] = 0]
    /\ matches' = [matches EXCEPT ![t] = <<>>]
    /\ unmatched' = [unmatched EXCEPT ![t] = 0]
    /\ started' = [started EXCEPT ![t] = 0]
    /\ UNCHANGED <<cache, last, now, readers>>
    /\ atCall' = [atCall EXCEPT ![t] = NoReduction]
    /\ atLookup' = [atLookup EXCEPT ![t] = NoReduction]
    /\ referenced' = [referenced EXCEPT ![t] = {}]
    /\ UNCHANGED <<writer, call>>

\* Time passes
Tick ==
    /\ now < MaxTime
    /\ now' = now + TickStep
    /\ UNCHANGED <<cache, last, readers, pc, handler, authorities, original, idx, errors,
                   outcomes, registry, tbl, accounts, distinct, matches, unmatched, started>>
    /\ UNCHANGED <<writer, atCall, atLookup, call, referenced>>

\* The state of the client while a function is applied in isolation: no task
\* is running and the cache is empty
Quiet ==
    /\ cache = <<>>
    /\ now = 0
    /\ readers = {}
    /\ pc = [t \in Tasks |-> "idle"]
    /\ handler = [t \in Tasks |-> FALSE]
    /\ authorities = [t \in Tasks |-> <<>>]
    /\ original = [t \in Tasks |-> {}]
    /\ idx = [t \in Tasks |-> 1]
    /\ errors = [t \in Tasks |-> <<>>]
    /\ outcomes = [t \in Tasks |-> <<>>]
    /\ registry = [t \in Tasks |-> NoRegistry]
    /\ tbl = [t \in Tasks |-> 1]
    /\ accounts = [t \in Tasks |-> {}]
    /\ distinct = [t \in Tasks |-> 0]
    /\ matches = [t \in Tasks |-> <<>>]
    /\ unmatched = [t \in Tasks |-> 0]
    /\ started = [t \in Tasks |-> 0]
    /\ last = <<>>
    /\ writer = "none"
    /\ atCall = [t \in Tasks |-> NoReduction]
    /\ atLookup = [t \in Tasks |-> NoReduction]
    /\ referenced = [t \in Tasks |-> {}]

\* Arguments of Registry::fetch: the authority and the responses of the RPC
\* node, the registry account holding any list of up to MaxEntries entries
FetchCalls ==
    [op : {"fetch"}, done : {FALSE}, res : {FetchErr("X", "")},
     arg : [authority : {"X"},
            acct : [status : {"Ok"},
                    data : [decodable : {TRUE}, version : {1}, tables : RawRegistries]]
                   \cup [status : {"AccountNotFound", "TransportError"}, data : {NoData}],
            multiOk : BOOLEAN]]

\* Arguments of append_to_lookup_table: a lookup table of the ledger and any
\* list of up to MaxAppend addresses
AppendCalls ==
    [op : {"append"}, done : {FALSE}, res : {AppendToLookupTable("T1", <<>>)},
     arg : [lookup_table : {"T1", "T2", "T3"},
            addresses : SeqsUpTo(Pubkey, MaxAppend)]]

\* Arguments of one table evaluation: any address list of up to MaxMembers
\* members, any working set and any order of iterating it
EvalCalls ==
    [op : {"eval"}, done : {FALSE},
     res : {[intersection |-> {}, accounts |-> {}, matches |-> <<>>]},
     arg : [addresses : SeqsUpTo(Pubkey, MaxMembers),
            order : UNION {IterationOrders[S] : S \in SUBSET Pubkey}]]

InitPure == Quiet /\ (call \in FetchCalls \/ call \in AppendCalls \/ call \in EvalCalls)

\* Registry::fetch is applied
ApplyFetch ==
    /\ call.op = "fetch" /\ ~call.done
    /\ call' = [call EXCEPT !.done = TRUE,
                            !.res = Fetch(call.arg.authority, call.arg.acct, call.arg.multiOk)]
    /\ UNCHANGED <<cache, now, readers, pc, handler, authorities, original, idx, errors,
                   outcomes, registry, tbl, accounts, distinct, matches, unmatched,
                   started, last, writer, atCall, atLookup, referenced>>

\* append_to_lookup_table is applied
ApplyAppend ==
    /\ call.op = "append" /\ ~call.done
    /\ call' = [call EXCEPT !.done = TRUE,
                            !.res = AppendToLookupTable(call.arg.lookup_table,
                                                        call.arg.addresses)]
    /\ UNCHANGED <<cache, now, readers, pc, handler, authorities, original, idx, errors,
                   outcomes, registry, tbl, accounts, distinct, matches, unmatched,
                   started, last, writer, atCall, atLookup, referenced>>

\* The body of `for table in registry.tables.iter()` is applied to one table
ApplyEval ==
    /\ call.op = "eval" /\ ~call.done
    /\ call' = [call EXCEPT !.done = TRUE,
                            !.res =
                                LET r == EvalTable([discriminator |-> 2,
                                                    lookup_address |-> "T1",
                                                    addresses |-> call.arg.addresses],
                                                   call.arg.order, <<>>)
                                IN  [intersection |-> Intersection(call.arg.addresses,
                                                                   call.arg.order),
                                     accounts |-> r.accounts,
                                     matches |-> r.matches]]
    /\ UNCHANGED <<cache, now, readers, pc, handler, authorities, original, idx, errors,
                   outcomes, registry, tbl, accounts, distinct, matches, unmatched,
                   started, last, writer, atCall, atLookup, referenced>>

\* The functions applied in isolation to arguments drawn from bounded sets
NextPure == ApplyFetch \/ ApplyAppend \/ ApplyEval

SpecPure == InitPure /\ [][NextPure]_vars

\* Sequential use: one task issues direct calls and requests, and time passes
Next ==
    \/ \E t \in Requesters : CallUpdate(t)
    \/ \E t \in Requesters : CallHandler(t)
    \/ \E t \in Requesters : CallFind(t)
    \/ \E t \in Requesters : FetchStep(t)
    \/ \E t \in Requesters : InsertStep(t)
    \/ \E t \in Requesters : UpdateReturn(t)
    \/ \E t \in Requesters : FindLookup(t)
    \/ \E t \in Requesters : FindTable(t)
    \/ \E t \in Requesters : FindRelease(t)
    \/ \E t \in Requesters : FindReturn(t)
    \/ \E t \in Requesters : Finish(t)
    \/ Tick

Spec == Init /\ [][Next]_vars

\* Concurrent use: a task running find_addresses against a task refreshing one
\* authority at a time on the same client
NextConc ==
    \/ \E t \in Finders : CallFind(t)
    \/ \E t \in Finders : FindLookup(t)
    \/ \E t \in Finders : FindTable(t)
    \/ \E t \in Finders : FindRelease(t)
    \/ \E t \in Finders : FindReturn(t)
    \/ \E t \in Updaters : CallUpdateOne(t)
    \/ \E t \in Updaters : FetchStep(t)
    \/ \E t \in Updaters : InsertStep(t)
    \/ \E t \in Updaters : UpdateReturn(t)
    \/ \E t \in Tasks : Finish(t)

SpecConc == Init /\ [][NextConc]_vars

----------------------------------------------------------------------------
(* Properties *)

\* The members of the lookup table at a lookup address
Members(lookup) == Range(LookupTableAccounts[lookup].addresses)

\* The task is inside find_addresses or has returned from it
InFind(t) == pc[t] \in {"lookup", "tables", "found"}

\* The step evaluates the current table of task t
EvaluatesTable(t) == pc[t] = "tables" /\ tbl'[t] = tbl[t] + 1

C2_NoFalseElimination ==
    \A t \in Tasks : InFind(t) =>
        /\ accounts[t] \subseteq original[t]
        /\ distinct[t] = Cardinality(original[t])
        /\ \A a \in original[t] \ accounts[t] :
              \E k \in DOMAIN matches[t] : a \in Members(matches[t][k])
        /\ pc[t] = "found" =>
              distinct[t] - unmatched[t] = Cardinality(original[t] \ accounts[t])

\* C2 witness: a call returned after removing addresses, leaving some unmatched
C2_Witness ==
    \E t \in Tasks :
        /\ pc[t] = "found"
        /\ original[t] \ accounts[t] # {}
        /\ accounts[t] # {}

\* C3: unmatched <= distinct for every result (the working set never exceeds
\* distinct), and when none of the supplied authorities has a present, unexpired
\* registry, unmatched = distinct and matches is empty.
C3_MonotonicShrink ==
    \A t \in Tasks :
        /\ InFind(t) => Cardinality(accounts[t]) <= distinct[t]
        /\ pc[t] = "found" =>
             /\ unmatched[t] <= distinct[t]
             /\ (\A i \in DOMAIN authorities[t] : ~Fresh(authorities[t][i], started[t]))
                   => unmatched[t] = distinct[t] /\ matches[t] = <<>>

\* C3 witness: a call returned with authorities supplied, none of them usable,
\* one of them with an expired entry still in the map
C3_Witness ==
    \E t \in Tasks :
        /\ pc[t] = "found" /\ distinct[t] > 0 /\ unmatched[t] = distinct[t]
        /\ authorities[t] # <<>>
        /\ \A i \in DOMAIN authorities[t] : ~Fresh(authorities[t][i], started[t])
        /\ \E i \in DOMAIN authorities[t] : authorities[t][i] \in DOMAIN cache

\* The step is the cache lookup of task t for its current authority
LooksUp(t) ==
    /\ pc[t] = "lookup"
    /\ idx[t] <= Len(authorities[t])
    /\ pc'[t] = "tables" \/ idx'[t] # idx[t]

\* C4: a lookup made once 3600 s have elapsed since the authority's last
\* successful refresh, or for an authority never refreshed successfully, reports
\* absence: find_addresses goes on to the next authority with its working set
\* and matches untouched, no registry is handed to it and no error is raised.
C4_CacheFreshness ==
    [][\A t \in Tasks :
        (LooksUp(t) /\ ~Fresh(authorities[t][idx[t]], now)) =>
            /\ pc'[t] = "lookup"
            /\ idx'[t] = idx[t] + 1
            /\ registry'[t] = NoRegistry
            /\ accounts'[t] = accounts[t]
            /\ matches'[t] = matches[t]
            /\ readers' = readers]_vars

\* C4 witness: a call has looked up an authority whose entry had expired when
\* the call began, then an authority that was never fetched, and goes on
C4_Witness ==
    \E t \in Tasks :
        /\ pc[t] = "lookup" /\ idx[t] = 3
        /\ authorities[t][1] \in DOMAIN cache
        /\ authorities[t][1] \in DOMAIN last
        /\ started[t] >= last[authorities[t][1]].at + 3600
        /\ authorities[t][2] \notin DOMAIN cache

\* C5 (as claimed): no fetch failure aborts update_registries; the call always
\* goes on to the remaining authorities and returns.
C5_NeverAborts == \A t \in Tasks : pc[t] # "panicked"

\* The cache entry of the authority differs between the two states of the step
EntryChanged(a) ==
    \/ (a \in DOMAIN cache) # (a \in DOMAIN cache')
    \/ a \in DOMAIN cache /\ a \in DOMAIN cache' /\ cache[a] # cache'[a]

\* C6: a failed fetch leaves the authority's cache entry as it was (same
\* registry, same expiry, none created): an entry is created or changed only by
\* the insert of a task whose fetch of that authority has just succeeded.
C6_FailureLeavesEntry ==
    [][\A a \in Authority :
        EntryChanged(a) =>
            \E t \in Tasks :
                /\ pc[t] = "insert" /\ pc'[t] = "fetch"
                /\ authorities[t][idx[t]] = a
                /\ outcomes[t][idx[t]] = "Fetched"]_vars

\* C6 witness: the fetch of an authority that has a cache entry has failed
C6_Witness ==
    \E t \in Tasks :
        /\ pc[t] = "fetch" /\ idx[t] > 1
        /\ outcomes[t][idx[t] - 1] = "Err"
        /\ authorities[t][idx[t] - 1] \in DOMAIN cache

\* update_registries of task t has returned
UpdateReturned(t) == pc[t] = "updated" \/ (handler[t] /\ InFind(t))

\* The authorities whose fetch returned an error, in input order
RECURSIVE FailedOf(_, _)
FailedOf(auths, outs) ==
    IF auths = <<>> THEN <<>>
    ELSE (IF Head(outs) = "Err" THEN <<Head(auths)>> ELSE <<>>)
            \o FailedOf(Tail(auths), Tail(outs))

\* C7: the list returned by update_registries holds exactly the authorities
\* whose fetch returned an error, in input order and once per occurrence; every
\* other occurrence had its registry inserted, so every authority missing from
\* the list has a cache entry.
C7_ReturnsFailed ==
    \A t \in Tasks : UpdateReturned(t) =>
        /\ Len(outcomes[t]) = Len(authorities[t])
        /\ errors[t] = FailedOf(authorities[t], outcomes[t])
        /\ \A i \in DOMAIN authorities[t] :
              /\ outcomes[t][i] # "Err" => outcomes[t][i] = "Inserted"
              /\ authorities[t][i] \notin Range(errors[t]) =>
                    authorities[t][i] \in DOMAIN cache

\* C7 witness: a call returned some, but not all, of its authorities
C7_Witness ==
    \E t \in Tasks :
        /\ pc[t] = "updated"
        /\ errors[t] # <<>>
        /\ Len(errors[t]) < Len(authorities[t])

\* C8: the insert after a successful fetch leaves the authority's entry holding
\* the fetched registry, expiring 3600 s after the insert; a lookup before that
\* (no later refresh) hands find_addresses exactly the registry last inserted.
C8_FreshInsert ==
    [][\A t \in Tasks :
        /\ (pc[t] = "insert" /\ pc'[t] = "fetch") =>
              LET a == authorities[t][idx[t]]
              IN  /\ a \in DOMAIN cache'
                  /\ cache'[a].registry = registry[t]
                  /\ cache'[a].expires = now + 3600
        /\ (LooksUp(t) /\ Fresh(authorities[t][idx[t]], now)) =>
              /\ pc'[t] = "tables"
              /\ registry'[t] = last[authorities[t][idx[t]]].registry]_vars

\* C8 witness: a request refreshed the same authority twice, the second insert
\* after the clock had advanced, and its lookup, made when an entry inserted at
\* time 0 would have expired, was handed the registry of the second insert
C8_Witness ==
    \E t \in Tasks :
        /\ pc[t] = "tables" /\ handler[t]
        /\ Len(authorities[t]) = 2 /\ authorities[t][1] = authorities[t][2]
        /\ outcomes[t] = <<"Inserted", "Inserted">>
        /\ last[authorities[t][1]].at > 0
        /\ now >= 3600
        /\ registry[t] = last[authorities[t][1]].registry

\* C9: whatever the interleaving, the registry a find_addresses task reads is
\* the whole registry published by the last successful refresh of that
\* authority, and stays so for as long as the task reads it; the map never
\* holds anything else for an authority.
C9_CompleteOrNone ==
    /\ \A a \in DOMAIN cache :
          a \in DOMAIN last /\ cache[a].registry = last[a].registry
    /\ \A t \in Tasks : pc[t] = "tables" =>
          LET a == authorities[t][idx[t]]
          IN  /\ a \in DOMAIN last
              /\ registry[t] = last[a].registry
              /\ registry[t].authority = a

\* C9 witness: a task reads the registry of an authority while another task
\* holds a different, freshly fetched registry of the same authority to insert
C9_Witness ==
    \E t \in Tasks, u \in Tasks :
        /\ pc[t] = "tables" /\ pc[u] = "insert"
        /\ tbl[t] > 1
        /\ authorities[u][idx[u]] = authorities[t][idx[t]]
        /\ registry[u] # registry[t]

\* The result of task t is the reduction over the authority list `auths`
ResultIs(t, auths) ==
    LET r == RefFind(auths, original[t], <<>>, now)
    IN  /\ matches[t] = r.matches
        /\ unmatched[t] = Cardinality(r.accounts)
        /\ distinct[t] = Cardinality(original[t])

\* The authorities of the request of task t all of whose fetches failed
FailedAuthorities(t) ==
    {authorities[t][i] : i \in DOMAIN authorities[t]} \
        {authorities[t][i] : i \in {j \in DOMAIN authorities[t] : outcomes[t][j] # "Err"}}

\* A request has returned and the clock did not advance during its reduction
RequestDone(t) == pc[t] = "found" /\ handler[t] /\ now = started[t]

Without(auths, S) == SelectSeq(auths, LAMBDA a : a \notin S)

\* C10 (as claimed): the result of a request equals the result of the same
\* request with the authorities whose fetch failed removed from the list, even
\* when the cache holds an unexpired entry of such an authority.
C10_FailedAsIfRemoved ==
    \A t \in Tasks : RequestDone(t) =>
        ResultIs(t, Without(authorities[t], FailedAuthorities(t)))

\* C10 (amended): the result of a request equals the result of the same request
\* with those failed authorities removed that have no unexpired entry in the
\* cache; a failed authority with an unexpired entry from an earlier successful
\* fetch is reduced against that entry like any other authority.
C10_FailedWithoutEntryAsIfRemoved ==
    \A t \in Tasks : RequestDone(t) =>
        ResultIs(t, Without(authorities[t],
                            {a \in FailedAuthorities(t) : ~Fresh(a, now)}))

\* C10 witness: a request whose first authority failed with no usable entry and
\* whose second authority supplied a match has returned
C10_Witness ==
    \E t \in Tasks :
        /\ RequestDone(t)
        /\ Len(authorities[t]) = 2
        /\ authorities[t][1] \in FailedAuthorities(t)
        /\ ~Fresh(authorities[t][1], now)
        /\ authorities[t][2] \notin FailedAuthorities(t)
        /\ matches[t] # <<>>

\* C11: the result of find_addresses is a function of the instructions, the
\* authorities and the registries present: with the cache unchanged, a call
\* returns the one result the reduction defines for its inputs (same matches in
\* the same order, same distinct, same unmatched), whatever the order in which
\* the working set was iterated.
C11_Deterministic ==
    \A t \in Tasks : (pc[t] = "found" /\ now = started[t]) =>
        ResultIs(t, authorities[t])

\* C11 witness: a call returned a match found by iterating a working set of two
\* addresses, which can be iterated in two orders
C11_Witness ==
    \E t \in Tasks :
        /\ pc[t] = "found" /\ now = started[t]
        /\ original[t] = {"C", "D"}
        /\ matches[t] = <<"T2">>
        /\ unmatched[t] = 0

\* C12: find_addresses evaluates the authorities in the order supplied and,
\* within a registry, the tables in stored order, each against the working set
\* as the earlier selections left it: at every point of the call the working set
\* and matches are those of the greedy reduction over the authorities and
\* tables evaluated so far, in that order. An address removed by an earlier
\* selected table is therefore never counted for nor claimed by a later one,
\* and matches lists the selected tables in evaluation order.
C12_EvaluationOrder ==
    \A t \in Tasks : (pc[t] \in {"lookup", "tables"} /\ now = started[t]) =>
        LET done == SubSeq(authorities[t], 1, idx[t] - 1)
            r == RefFind(done, original[t], <<>>, now)
            q == IF pc[t] = "lookup" THEN r
                 ELSE RefTables(SubSeq(registry[t].tables, 1, tbl[t] - 1),
                                r.accounts, r.matches)
        IN  accounts[t] = q.accounts /\ matches[t] = q.matches

\* C12 witness: the second table of a registry has two addresses in common with
\* the set built from the instructions, but only one with the working set left
\* by the first table, which was selected; the second was not
C12_Witness ==
    \E t \in Tasks :
        /\ pc[t] = "tables" /\ tbl[t] = 3 /\ now = started[t]
        /\ matches[t] = <<registry[t].tables[1].lookup_address>>
        /\ Cardinality(Range(registry[t].tables[2].addresses) \cap original[t]) > 1
        /\ Cardinality(Range(registry[t].tables[2].addresses) \cap accounts[t]) = 1

\* The greedy reduction over authorities that all have a published registry
RECURSIVE RefPresent(_, _, _)
RefPresent(auths, accs, ms) ==
    IF auths = <<>> THEN [accounts |-> accs, matches |-> ms]
    ELSE LET r == RefTables(last[Head(auths)].registry.tables, accs, ms)
         IN  RefPresent(Tail(auths), r.accounts, r.matches)

\* C13: an authority with no present entry in the cache (never refreshed, or
\* expired) is skipped without error: with the cache unchanged, the result of
\* find_addresses is that of the same call with every such authority deleted
\* from the list, the remaining authorities being processed in order, and the
\* only way a call ends without returning is the panic inside a fetch.
C13_AbsentSkipped ==
    \A t \in Tasks :
        /\ (pc[t] = "found" /\ now = started[t]) =>
              LET present == Without(authorities[t],
                                     {a \in Authority : ~Fresh(a, now)})
                  r == RefPresent(present, original[t], <<>>)
              IN  /\ matches[t] = r.matches
                  /\ unmatched[t] = Cardinality(r.accounts)
        /\ pc[t] = "panicked" =>
              outcomes[t] # <<>> /\ outcomes[t][Len(outcomes[t])] = "Panic"

\* C13 witness: a direct call whose first authority was never refreshed and
\* whose second authority supplied a match has returned
C13_Witness ==
    \E t \in Tasks :
        /\ pc[t] = "found" /\ now = started[t] /\ ~handler[t]
        /\ Len(authorities[t]) = 2
        /\ authorities[t][1] \notin DOMAIN cache
        /\ Fresh(authorities[t][2], now)
        /\ matches[t] # <<>>

\* C14 (as claimed): the result of a find_addresses call is the reduction over
\* the registries that were present when the call was entered; a refresh that
\* completes while the call runs does not change it.
C14_ImmutableView ==
    \A t \in Tasks : pc[t] = "found" =>
        /\ matches[t] = atCall[t].matches
        /\ unmatched[t] = Cardinality(atCall[t].accounts)

\* C14 (amended): a find_addresses call reads the registry of each authority
\* when it reaches that authority, and reduces against the registry as it was
\* published at that moment: between authorities, and on return, the working
\* set and matches are the reduction over the registries published at the
\* moments of the lookups made so far, and while the tables of an authority are
\* evaluated the registry held is still the one read at its lookup. A refresh
\* that completes between the processing of two authorities is seen by the
\* later lookup and can change the result.
C14_ViewPerLookup ==
    \A t \in Tasks :
        /\ pc[t] \in {"lookup", "found"} =>
              /\ accounts[t] = atLookup[t].accounts
              /\ matches[t] = atLookup[t].matches
        /\ pc[t] = "found" => unmatched[t] = Cardinality(atLookup[t].accounts)
        /\ pc[t] = "tables" =>
              RefTables(SubSeq(registry[t].tables, tbl[t], Len(registry[t].tables)),
                        accounts[t], matches[t]) = atLookup[t]

\* C14 witness: a call returned a match supplied by a refresh that completed
\* after the call was entered; the registries present at entry gave no match
C14_Witness ==
    \E t \in Tasks :
        /\ pc[t] = "found"
        /\ atCall[t].matches = <<>>
        /\ matches[t] # <<>>
        /\ matches[t] = atLookup[t].matches

\* C15 (as claimed): while find_addresses evaluates the tables of one
\* authority, an update_registries insert for a different authority is able
\* to proceed.
C15_UnrelatedWriterProceeds ==
    \A t \in Tasks, u \in Tasks :
        (/\ pc[t] = "tables"
         /\ pc[u] = "insert"
         /\ authorities[u][idx[u]] # authorities[t][idx[t]])
            => ENABLED InsertStep(u)

\* C15 (amended): find_addresses holds the read guard of the cache exactly
\* while it evaluates the tables of one authority and holds nothing between
\* authorities or after returning: an update_registries insert, for whatever
\* authority, waits while tables are being evaluated and is able to proceed
\* whenever no call is in the middle of an authority's tables.
C15_GuardPerAuthority ==
    /\ readers = {t \in Tasks : pc[t] = "tables"}
    /\ \A u \in Tasks :
          pc[u] = "insert" =>
              (ENABLED InsertStep(u)) = (\A t \in Tasks : pc[t] # "tables")

\* C15 witness: an insert is due while a call that has selected a table of its
\* first authority is between two authorities, holding no guard
C15_Witness ==
    \E t \in Tasks, u \in Tasks :
        /\ pc[u] = "insert"
        /\ pc[t] = "lookup" /\ idx[t] = 2 /\ Len(authorities[t]) = 2
        /\ matches[t] # <<>>
        /\ readers = {}

\* The fetch of task u for its current authority has been issued and has not
\* completed
FetchPending(u) == pc[u] = "fetch" /\ idx[u] <= Len(authorities[u])

\* C16: while a fetch issued by update_registries is pending, the refreshing
\* task holds neither guard of the cache lock, and a find_addresses lookup of
\* another authority that has a published, unexpired registry is able to
\* proceed and is handed that registry.
C16_PendingFetchHoldsNoLock ==
    \A u \in Tasks : FetchPending(u) =>
        /\ writer # u
        /\ u \notin readers
        /\ \A t \in Tasks \ {u} :
              (/\ pc[t] = "lookup"
               /\ idx[t] <= Len(authorities[t])
               /\ authorities[t][idx[t]] # authorities[u][idx[u]]
               /\ Fresh(authorities[t][idx[t]], now))
                  => ENABLED (/\ FindLookup(t)
                              /\ pc'[t] = "tables"
                              /\ registry'[t] = last[authorities[t][idx[t]]].registry)

\* C16 witness: a task has just been handed the registry of one authority
\* while the fetch of another authority is pending
C16_Witness ==
    \E t \in Tasks, u \in Tasks :
        /\ FetchPending(u)
        /\ pc[t] = "tables" /\ tbl[t] = 1
        /\ authorities[t][idx[t]] # authorities[u][idx[u]]
        /\ registry[t] = last[authorities[t][idx[t]]].registry

\* C20: distinct is the number of distinct addresses among the program ids and
\* the referenced accounts of all the instructions, whatever the cache holds and
\* whatever authorities are supplied; for an empty instruction list (no address
\* referenced) the call returns distinct = 0, unmatched = 0 and no match.
C20_DistinctCountsReferenced ==
    \A t \in Tasks :
        /\ InFind(t) => distinct[t] = Cardinality(referenced[t])
        /\ (pc[t] = "found" /\ referenced[t] = {}) =>
              distinct[t] = 0 /\ unmatched[t] = 0 /\ matches[t] = <<>>

\* C20 witness: a call whose instructions refer to four distinct addresses,
\* one of them by two instructions and twice within one, has returned a match
\* from a cache entry
C20_Witness ==
    \E t \in Tasks :
        /\ pc[t] = "found"
        /\ referenced[t] = {"A", "B", "C", "D"}
        /\ distinct[t] = 4
        /\ matches[t] # <<>>

\* The active entries of an on-chain registry whose table account exists and
\* decodes, in registry order, each with the members of its own table account
RECURSIVE ActiveTables(_)
ActiveTables(raw) ==
    IF raw = <<>> THEN <<>>
    ELSE LET e == Head(raw)
             account == LookupTableAccounts[e.table]
         IN  (IF e.discriminator > 1 /\ account.exists /\ account.decodable
              THEN <<[discriminator |-> e.discriminator,
                      lookup_address |-> e.table,
                      addresses |-> account.addresses]>>
              ELSE <<>>) \o ActiveTables(Tail(raw))

\* C17: a Registry returned by Registry::fetch holds exactly the entries of the
\* on-chain registry that have discriminator > 1 and whose table account exists
\* and decodes, in on-chain order, each carrying the member addresses of the
\* table account at its own lookup_address; the other entries are omitted.
C17_FetchedTables ==
    (call.op = "fetch" /\ call.done /\ call.res.status = "Ok") =>
        /\ call.res.registry.tables = ActiveTables(call.arg.acct.data.tables)
        /\ call.res.registry.authority = call.arg.authority
        /\ \A k \in DOMAIN call.res.registry.tables :
              LET entry == call.res.registry.tables[k]
              IN  /\ entry.discriminator > 1
                  /\ entry.addresses = LookupTableAccounts[entry.lookup_address].addresses

\* C17 witness: a fetch returned one entry of a registry of three: the first
\* entry is inactive, the table account of the second is missing
C17_Witness ==
    /\ call.op = "fetch" /\ call.done /\ call.res.status = "Ok"
    /\ Len(call.arg.acct.data.tables) = 3
    /\ call.arg.acct.data.tables[1].discriminator <= 1
    /\ call.arg.acct.data.tables[2].discriminator > 1
    /\ ~LookupTableAccounts[call.arg.acct.data.tables[2].table].exists
    /\ Len(call.res.registry.tables) = 1
    /\ call.res.registry.tables[1].lookup_address = call.arg.acct.data.tables[3].table

\* C18 (as claimed): the instruction built by append_to_lookup_table appends
\* only the unique new addresses: no address is repeated in it, none is already
\* a member of the lookup table, and every new address of the input is in it.
C18_AppendsUniqueNew ==
    (call.op = "append" /\ call.done) =>
        LET appended == call.res.data.addresses
            existing == Members(call.arg.lookup_table)
        IN  /\ \A i \in DOMAIN appended, j \in DOMAIN appended :
                  i # j => appended[i] # appended[j]
            /\ Range(appended) = Range(call.arg.addresses) \ existing

\* C19: for every address list of a table and every working set, iterated in
\* whatever order, the intersection computed is the set intersection of the
\* table's distinct members with the working set, on either branch (address
\* list shorter than the working set, or not) and however often a member is
\* repeated; the table is selected and the working set reduced as for the
\* list without repetitions.
C19_IntersectionOfSets ==
    (call.op = "eval" /\ call.done) =>
        LET accs == Range(call.arg.order)
            common == Range(call.arg.addresses) \cap accs
        IN  /\ call.res.intersection = common
            /\ call.res.matches = IF Cardinality(common) > 1 THEN <<"T1">> ELSE <<>>
            /\ call.res.accounts = IF Cardinality(common) > 1 THEN accs \ common ELSE accs

\* C19 witness: a table whose address list repeats a member and is longer than
\* the working set, which is therefore the side iterated, was selected
C19_Witness ==
    /\ call.op = "eval" /\ call.done
    /\ Len(call.arg.addresses) > Cardinality(Range(call.arg.addresses))
    /\ Len(call.arg.addresses) > Len(call.arg.order)
    /\ Len(call.arg.order) = 2
    /\ call.res.matches = <<"T1">>
    /\ call.res.accounts = {}

\* The address sets claimed by the selected tables ms, in order, from the set
\* accs: each table claims its members among what the earlier ones left
RECURSIVE Claimed(_, _)
Claimed(ms, accs) ==
    IF ms = <<>> THEN <<>>
    ELSE LET common == Members(Head(ms)) \cap accs
         IN  <<common>> \o Claimed(Tail(ms), accs \ common)

RECURSIVE SumOfSizes(_)
SumOfSizes(sets) ==
    IF sets = <<>> THEN 0 ELSE Cardinality(Head(sets)) + SumOfSizes(Tail(sets))

\* C21: throughout a find_addresses call the addresses removed from the working
\* set are exactly those claimed by the selected tables, each table claiming at
\* least two; the number removed is the sum of the sizes of these intersections
\* (so they are pairwise disjoint) and is at least 2 * |matches|; for the
\* returned result, distinct - unmatched is that sum.
C21_RemovedIsSumOfIntersections ==
    \A t \in Tasks : InFind(t) =>
        LET claimed == Claimed(matches[t], original[t])
        IN  /\ \A k \in DOMAIN claimed : Cardinality(claimed[k]) >= 2
            /\ original[t] \ accounts[t] = UNION {claimed[k] : k \in DOMAIN claimed}
            /\ distinct[t] - Cardinality(accounts[t]) = SumOfSizes(claimed)
            /\ distinct[t] - Cardinality(accounts[t]) >= 2 * Len(matches[t])
            /\ pc[t] = "found" =>
                  /\ distinct[t] - unmatched[t] = SumOfSizes(claimed)
                  /\ distinct[t] - unmatched[t] >= 2 * Len(matches[t])

\* C21 witness: a call returned two selected tables that between them removed
\* four addresses
C21_Witness ==
    \E t \in Tasks :
        /\ pc[t] = "found"
        /\ Len(matches[t]) = 2
        /\ distinct[t] - unmatched[t] = 4

\* C22: with the cache unchanged during the call and one address list per
\* lookup address, matches never holds the same lookup address twice, also when
\* an authority is listed more than once or a table is registered under several
\* authorities: when a table already selected is evaluated again it has no
\* address in common with the working set and is not selected.
C22_NoRepeatedMatch ==
    [][\A t \in Tasks :
        /\ \A i \in DOMAIN matches'[t], j \in DOMAIN matches'[t] :
              i # j => matches'[t][i] # matches'[t][j]
        /\ (EvaluatesTable(t) /\ now = started[t]) =>
              LET table == registry[t].tables[tbl[t]]
              IN  table.lookup_address \in Range(matches[t]) =>
                     /\ Range(table.addresses) \cap accounts[t] = {}
                     /\ matches'[t] = matches[t]
                     /\ accounts'[t] = accounts[t]]_vars

\* C22 witness: an authority is listed twice; in the second pass over its
\* registry the first table, selected in the first pass, has been evaluated
\* again
C22_Witness ==
    \E t \in Tasks :
        /\ pc[t] = "tables" /\ now = started[t]
        /\ idx[t] = 2 /\ authorities[t][1] = authorities[t][2]
        /\ tbl[t] = 2
        /\ registry[t].tables[1].lookup_address \in Range(matches[t])

====
